---- MODULE Spec2Model ----
(***************************************************************************)
(* tap-coingecko: the pagination-and-checkpoint engine of the daily        *)
(* stream (CoingeckoDailyStream, streams/base.py).                         *)
(*                                                                         *)
(* Datetimes are counted in ticks, OneDay ticks to a calendar day, so that   *)
(* a datetime (a tick), a date string "%Y-%m-%d" (a day number) and the    *)
(* conversions between them (strftime, pendulum.parse) are distinct.       *)
(*                                                                         *)
(* The state store keeps two values per partition, as the singer harness   *)
(* does for a stream with is_sorted = False: the bookmark                  *)
(* (replication_key_value, read by get_starting_replication_key_value) and *)
(* the progress marker (progress_markers.replication_key_value, written by *)
(* _increment_stream_state in the page loop).  The harness promotes the    *)
(* progress marker to the bookmark when a sync completes.                  *)
(***************************************************************************)
EXTENDS Integers, Sequences, FiniteSets, TLC

\* ---------------------------------------------------------------- bounds
NumTokens == 2          \* configured tokens, in configuration order 1..NumTokens
MaxDay == 3             \* the wall clock stays within days 1..MaxDay
MaxRuns == 2            \* number of sync runs
OneDay == 2             \* clock ticks per calendar day (model resolution)
TickMs == 2             \* milliseconds per clock tick (model resolution)
MaxWait == 2            \* config["wait_time_between_requests"] ranges over 0..MaxWait
MaxPage == 4            \* the ticker pages of a token followed: page tokens up to MaxPage + 1
MaxTickers == 101       \* the largest number of tickers a response holds

\* ------------------------------------------------------ program constants
max_tries == 8          \* backoff.on_exception(..., max_tries=8)
max_iterations == 100   \* the hourly page loop's safety limit
chunk_days == 30        \* chunk_size_ms = 30 * 24 * 60 * 60 * 1000
asset_max_tries == 5    \* AssetProfileStream.request_decorator: max_tries=5
categories_max_tries == 8  \* CoinCategoriesStream.request_decorator: max_tries=8
tickers_per_page == 100 \* AssetMarketQualityStream.get_next_page_token: a full page

None == -1
PRO == "https://pro-api.coingecko.com/api/v3"
FREE == "https://api.coingecko.com/api/v3"
INVALID == "https://invalid-api.com"
Tokens == 1 .. NumTokens
MaxTick == MaxDay * OneDay - 1
Ticks == 0 .. MaxTick
Days == 0 .. MaxDay

\* the exceptions one request attempt or one parse can raise
Whitelist == {"RetriableAPIError", "ReadTimeout"}
RequestErrors == {"RetriableAPIError", "ReadTimeout", "ConnectionError", "FatalAPIError"}

VARIABLES
  start_date,        \* config["start_date"], parsed: a tick
  api_url,           \* config["api_url"]
  stream,            \* the stream class being synced
  token_count,       \* len(config["token"]): tokens 1 .. token_count are configured
  wait_time,         \* config["wait_time_between_requests"], seconds
  today_str,         \* request_records' today_str (asset-profile stream)
  token_result,      \* history: how the processing of each token ended, this run
  days,              \* config["days"] (hourly stream)
  now,               \* the wall clock, a tick (read by the hourly stream)
  token_naive,       \* next_page_token is a naive local datetime (hourly stream)
  iteration_count,   \* the hourly page loop's iteration_count
  sleeps,            \* rate-limit pauses taken since the partition's last page request
  sleep_total,       \* history: number of rate-limit pauses of this run
  today,             \* the wall clock's UTC calendar day
  bookmark,          \* state store: replication_key_value per token (day or None)
  progress_marker,   \* state store: progress_markers.replication_key_value per token
  stream_state,      \* the bookmarks dictionary get_updated_state works on
  run,               \* number of the current sync run
  phase,             \* "idle", "running", "finalize", "done", "failed", "pure"
  current_token,     \* self.current_token (0: not set)
  pc,                \* position in request_records / _fetch_token_data
  next_page_token,   \* the page loop's next_page_token (a tick or None)
  tries,             \* attempts made so far on the current page request
  records,           \* the list request_records collects for the current token
  out,               \* records delivered to the consumer of request_records, this run
  error,             \* the exception that ended the run ("none" if none)
  pages,             \* history: date parameters of the pages requested per token, this run
  start_used,        \* history: resolved starting cursor per token, this run
  sp_first,          \* history: signpost of the first sequencer call per token
  sp_stable,         \* history: all sequencer calls of the token saw sp_first
  run_sps,           \* history: signposts seen by the sequencer calls of this run
  prev_sps,          \* history: the same for the previous run
  prev_ok,           \* history: the previous run completed without error
  last_tries,        \* history: attempts the last finished page request took
  last_error,        \* history: what the last attempt of the current page raised
  run_start_bookmark,\* history: the bookmarks when the current run started
  last_call          \* history: the last direct call of a stateless method

vars == << start_date, api_url, stream, token_count, wait_time, today_str, token_result,
           days, now, token_naive, iteration_count, sleeps,
           sleep_total, today, bookmark, progress_marker, stream_state, run, phase,
           current_token, pc, next_page_token, tries, records, out, error,
           pages, start_used, sp_first, sp_stable, run_sps, prev_sps,
           prev_ok, last_tries, last_error, run_start_bookmark, last_call >>

state_vars == << bookmark, progress_marker >>
env_vars == << api_url, stream, days, token_count, wait_time >>
snap_vars == << today_str, token_result >>
loop_vars == << token_naive, iteration_count >>
rate_vars == << sleeps, sleep_total >>
hist_vars == << pages, start_used, sp_first, sp_stable, run_sps, prev_sps,
                prev_ok, last_tries, last_error, run_start_bookmark >>

\* ------------------------------------------------------------ conversions
\* datetime.strftime("%Y-%m-%d") / ("%d-%m-%Y"): the calendar day of a datetime
strftime(dt) == dt \div OneDay

\* pendulum.parse of a date string: midnight of that day
parse(day) == day * OneDay

\* pendulum.yesterday(tz="UTC"): midnight of the day before today
get_replication_key_signpost == parse(today - 1)

get_starting_replication_key_value_cfg(t) == start_date

\* bookmark of the partition if there is one, else config start_date
get_starting_replication_key_value(t) ==
  IF bookmark[t] # None THEN parse(bookmark[t]) ELSE start_date

get_next_page_token_back(previous_token, t) ==
  LET old_token == IF previous_token # None THEN previous_token
                   ELSE get_starting_replication_key_value(t)
      signpost == get_replication_key_signpost
  IN  IF old_token < signpost THEN old_token - OneDay ELSE None

get_next_page_token_same(previous_token, t) ==
  LET old_token == IF previous_token # None THEN previous_token
                   ELSE get_starting_replication_key_value(t)
      signpost == get_replication_key_signpost
  IN  IF old_token < signpost THEN old_token ELSE None

get_next_page_token_le(previous_token, t) ==
  LET old_token == IF previous_token # None THEN previous_token
                   ELSE get_starting_replication_key_value(t)
      signpost == get_replication_key_signpost
  IN  IF old_token <= signpost THEN old_token + OneDay ELSE None

get_next_page_token(previous_token, t) ==
  LET old_token == IF previous_token # None THEN previous_token
                   ELSE get_starting_replication_key_value(t)
      signpost == get_replication_key_signpost
  IN  IF old_token < signpost THEN old_token + OneDay ELSE None

parse_response_prev(page_token) ==
  [token |-> current_token, date |-> strftime(page_token) - 1]

\* parse_response: one record, dated with the page token, tagged with current_token
parse_response(page_token) == [token |-> current_token, date |-> strftime(page_token)]

\* Stream._increment_stream_state for an unsorted stream: the progress marker
\* takes the record's replication key unless that is older than the marker
increment_stream_state_latest(old, new) == new

increment_stream_state(old, new) == IF old = None \/ new >= old THEN new ELSE old

\* get_updated_state: bookmarks["coingecko_token"][token] = record date, a
\* datetime being formatted as a date first
get_updated_state(current_stream_state, latest_record) ==
  LET record_date == IF latest_record.is_datetime THEN strftime(latest_record.date)
                     ELSE latest_record.date
  IN  [current_stream_state EXCEPT ![latest_record.token] = record_date]

\* ------------------------------------------------------------------- Init
NoCall == [op |-> "none"]

HistInit ==
  /\ pages = [t \in Tokens |-> << >>]
  /\ start_used = [t \in Tokens |-> None]
  /\ sp_first = [t \in Tokens |-> None]
  /\ sp_stable = [t \in Tokens |-> TRUE]
  /\ run_sps = {}
  /\ prev_sps = {}
  /\ prev_ok = FALSE
  /\ last_tries = 0
  /\ last_error = "none"
  /\ run_start_bookmark = [t \in Tokens |-> None]

\* the stream after construction, before any sync
Constructed ==
  /\ start_date \in Ticks
  /\ api_url \in {PRO, FREE}
  /\ token_naive = FALSE
  /\ iteration_count = 0
  /\ today_str = None
  /\ token_result = [t \in Tokens |-> "none"]
  /\ sleeps = << >>
  /\ sleep_total = 0
  /\ progress_marker = [t \in Tokens |-> None]
  /\ stream_state = [t \in Tokens |-> None]
  /\ current_token = 0
  /\ pc = "none"
  /\ next_page_token = None
  /\ tries = 0
  /\ records = << >>
  /\ out = << >>
  /\ error = "none"
  /\ HistInit
  /\ last_call = NoCall

\* the daily stream before its first sync; its clock is read at day granularity
DailySetup ==
  /\ stream = "daily"
  /\ token_count = NumTokens
  /\ wait_time = 1
  /\ run = 0
  /\ today \in 1 .. MaxDay
  /\ now = today * OneDay
  /\ days = "1"

Init ==
  /\ Constructed
  /\ DailySetup
  /\ bookmark = [t \in Tokens |-> None]
  /\ phase = "idle"

\* ---------------------------------------------------------------- actions
\* UTC midnight passes.  The clock is read only by get_replication_key_signpost,
\* so it is enough to let midnight pass between runs, before a partition
\* begins, and before the first attempt of a page request.
NewDay ==
  /\ stream = "daily"
  /\ \/ phase \in {"done", "failed"}
     \/ phase = "running" /\ pc = "begin"
     \/ phase = "running" /\ pc = "request" /\ tries = 0
  /\ today < MaxDay
  /\ today' = today + 1
  /\ now' = today' * OneDay
  /\ UNCHANGED << env_vars, snap_vars, loop_vars, rate_vars, start_date, bookmark, progress_marker, stream_state, run, phase,
                  current_token, pc, next_page_token, tries, records, out, error,
                  hist_vars, last_call >>

\* the harness starts a sync: progress markers of an earlier run are cleared
\* and request_records is entered
first_partition_of_context(context) == IF context = None THEN 1 ELSE context

\* request_records iterates config["token"] from its first entry; the context
\* it is called with is only logged
first_partition(context) == 1

\* one call of request_records(context) by the harness, at the start of a run
StartRun(context) ==
  /\ phase \in {"idle", "done", "failed"}
  /\ run < MaxRuns
  /\ run' = run + 1
  /\ phase' = "running"
  /\ progress_marker' = [t \in Tokens |-> None]
  /\ current_token' = first_partition(context)
  /\ pc' = "begin"
  /\ next_page_token' = None
  /\ tries' = 0
  /\ records' = << >>
  /\ out' = << >>
  /\ error' = "none"
  /\ pages' = [t \in Tokens |-> << >>]
  /\ start_used' = [t \in Tokens |-> None]
  /\ sp_first' = [t \in Tokens |-> None]
  /\ sp_stable' = [t \in Tokens |-> TRUE]
  /\ prev_sps' = run_sps
  /\ run_sps' = {}
  /\ prev_ok' = (phase = "done")
  /\ last_tries' = 0
  /\ last_error' = "none"
  /\ run_start_bookmark' = bookmark
  /\ sleeps' = << >>
  /\ sleep_total' = 0
  /\ UNCHANGED << env_vars, snap_vars, loop_vars, now, start_date, today, bookmark, stream_state, last_call >>

\* request_records, loop head, and _fetch_token_data up to the page loop:
\* the first token of the partition is computed
BeginPartition ==
  /\ stream = "daily"
  /\ phase = "running" /\ pc = "begin"
  /\ LET t == current_token
         tok == get_next_page_token(None, t)
         sp == get_replication_key_signpost
     IN  /\ start_used' = [start_used EXCEPT ![t] = get_starting_replication_key_value(t)]
         /\ sp_first' = [sp_first EXCEPT ![t] = sp]
         /\ run_sps' = run_sps \cup {sp}
         /\ records' = << >>
         /\ tries' = 0
         /\ sleeps' = << >>
         /\ sleep_total' = sleep_total
         /\ next_page_token' = tok
         /\ IF tok = None
            THEN /\ pc' = "yield"
                 /\ pages' = pages
            ELSE /\ pc' = "request"
                 /\ pages' = [pages EXCEPT ![t] = Append(@, strftime(tok))]
  /\ UNCHANGED << env_vars, snap_vars, loop_vars, now, start_date, today, bookmark, progress_marker,
                  stream_state, run, phase,
                  current_token, out, error, sp_stable, prev_sps, prev_ok,
                  last_tries, last_error, run_start_bookmark, last_call >>

\* the exception e leaves request_records: the records collected for the
\* current token are dropped with the list, and the run ends
Raise(e) ==
  /\ phase' = "failed"
  /\ pc' = "none"
  /\ error' = e
  /\ records' = << >>
  /\ next_page_token' = None

\* request_decorator: the give-up rule of backoff.on_exception
giveup_any(e, n) == n >= max_tries

giveup(e, n) == e \notin Whitelist \/ n >= max_tries

RetryAttempt_uncounted(e) ==
  /\ phase = "running" /\ pc = "request"
  /\ ~ giveup(e, tries + 1)
  /\ tries' = tries
  /\ last_error' = e
  /\ UNCHANGED << env_vars, snap_vars, loop_vars, rate_vars, now, start_date, today, bookmark, progress_marker,
                  stream_state, run, phase,
                  current_token, pc, next_page_token, records, out, error, pages,
                  start_used, sp_first, sp_stable, run_sps, prev_sps, prev_ok,
                  last_tries, run_start_bookmark, last_call >>

\* one attempt of decorated_request fails with a whitelisted error under the
\* attempt cap: backoff sleeps and tries again
RetryAttempt(e) ==
  /\ phase = "running" /\ pc = "request"
  /\ ~ giveup(e, tries + 1)
  /\ tries' = tries + 1
  /\ last_error' = e
  /\ UNCHANGED << env_vars, snap_vars, loop_vars, rate_vars, now, start_date, today, bookmark, progress_marker,
                  stream_state, run, phase,
                  current_token, pc, next_page_token, records, out, error, pages,
                  start_used, sp_first, sp_stable, run_sps, prev_sps, prev_ok,
                  last_tries, run_start_bookmark, last_call >>

RequestRaises_marked(e) ==
  /\ phase = "running" /\ pc = "request"
  /\ giveup(e, tries + 1)
  /\ tries' = 0
  /\ last_tries' = tries + 1
  /\ last_error' = e
  /\ Raise(e)
  /\ progress_marker' = [progress_marker EXCEPT ![current_token] =
                           increment_stream_state(@, strftime(next_page_token))]
  /\ UNCHANGED << env_vars, snap_vars, loop_vars, rate_vars, now, start_date, today, bookmark, stream_state, run,
                  current_token, out, pages, start_used, sp_first, sp_stable,
                  run_sps, prev_sps, prev_ok, run_start_bookmark, last_call >>

\* one attempt fails and backoff gives up: the error reaches the page loop,
\* which does not handle it
RequestRaises(e) ==
  /\ phase = "running" /\ pc = "request"
  /\ giveup(e, tries + 1)
  /\ tries' = 0
  /\ last_tries' = tries + 1
  /\ last_error' = e
  /\ Raise(e)
  /\ UNCHANGED << env_vars, snap_vars, loop_vars, rate_vars, now, start_date, today, bookmark, progress_marker,
                  stream_state, run,
                  current_token, out, pages, start_used, sp_first, sp_stable,
                  run_sps, prev_sps, prev_ok, run_start_bookmark, last_call >>

\* the attempt succeeds but the body is not a JSON object: parse_response raises
ParseRaises ==
  /\ phase = "running" /\ pc = "request"
  /\ tries' = 0
  /\ last_tries' = tries + 1
  /\ last_error' = "none"
  /\ Raise("JSONDecodeError")
  /\ UNCHANGED << env_vars, snap_vars, loop_vars, rate_vars, now, start_date, today, bookmark, progress_marker,
                  stream_state, run,
                  current_token, out, pages, start_used, sp_first, sp_stable,
                  run_sps, prev_sps, prev_ok, run_start_bookmark, last_call >>

\* the end of one iteration of the daily page loop: a token equal to the one
\* just requested raises, no token ends the loop, any other token is requested
page_loop_guard(nxt, previous_token) ==
  IF nxt = previous_token THEN "raise"
  ELSE IF nxt = None THEN "break"
  ELSE "continue"

rate_limit_pause_always == << "wait_time_between_requests" >>

\* time.sleep(config["wait_time_between_requests"]) unless the premium URL is set
rate_limit_pause ==
  IF api_url # PRO THEN << "wait_time_between_requests" >> ELSE << >>

\* the attempt succeeds: the page is parsed, the state incremented, the record
\* collected, and the next token computed
PageSuccess ==
  /\ stream = "daily"
  /\ phase = "running" /\ pc = "request"
  /\ LET t == current_token
         record == parse_response(next_page_token)
         previous_token == next_page_token
         nxt == get_next_page_token(previous_token, t)
         sp == get_replication_key_signpost
     IN  /\ tries' = 0
         /\ last_tries' = tries + 1
         /\ last_error' = "none"
         /\ progress_marker' = [progress_marker EXCEPT
                                  ![t] = increment_stream_state(@, record.date)]
         /\ run_sps' = run_sps \cup {sp}
         /\ sp_stable' = [sp_stable EXCEPT ![t] = @ /\ sp = sp_first[t]]
         /\ CASE page_loop_guard(nxt, previous_token) = "raise" ->
                   /\ Raise("RuntimeError")
                   /\ UNCHANGED << pages, rate_vars >>
              [] page_loop_guard(nxt, previous_token) = "break" ->
                   /\ records' = Append(records, record)
                   /\ next_page_token' = nxt
                   /\ UNCHANGED << error, phase, pages, sleep_total >>
                   /\ pc' = "yield"
                   /\ sleeps' = << >>
              [] page_loop_guard(nxt, previous_token) = "continue" ->
                   /\ records' = Append(records, record)
                   /\ next_page_token' = nxt
                   /\ UNCHANGED << error, phase >>
                   /\ pc' = "request"
                   /\ sleeps' = rate_limit_pause
                   /\ sleep_total' = sleep_total + Len(rate_limit_pause)
                   /\ pages' = [pages EXCEPT ![t] = Append(@, strftime(nxt))]
  /\ UNCHANGED << env_vars, snap_vars, loop_vars, now, start_date, today, bookmark, stream_state, run,
                  current_token, out,
                  start_used, sp_first, prev_sps, prev_ok, run_start_bookmark, last_call >>

\* request_records: the collected list is yielded, then the next token is taken
YieldRecords ==
  /\ phase = "running" /\ pc = "yield"
  /\ out' = out \o records
  /\ records' = << >>
  /\ next_page_token' = None
  /\ tries' = 0
  /\ IF current_token < NumTokens
     THEN /\ current_token' = current_token + 1
          /\ pc' = "begin"
          /\ phase' = phase
     ELSE /\ current_token' = current_token
          /\ pc' = "none"
          /\ phase' = "finalize"
  /\ last_tries' = 0
  /\ sleeps' = << >>
  /\ UNCHANGED << env_vars, snap_vars, loop_vars, now, sleep_total, start_date, today, bookmark, progress_marker,
                  stream_state, run, error,
                  pages, start_used, sp_first, sp_stable, run_sps, prev_sps, prev_ok,
                  last_error, run_start_bookmark, last_call >>

\* the harness, after request_records is exhausted: progress markers become
\* the bookmarks
FinalizeState ==
  /\ phase = "finalize"
  /\ bookmark' = [t \in Tokens |->
                    IF progress_marker[t] # None THEN progress_marker[t] ELSE bookmark[t]]
  /\ progress_marker' = [t \in Tokens |-> None]
  /\ phase' = "done"
  /\ UNCHANGED << env_vars, snap_vars, loop_vars, rate_vars, now, start_date, today, stream_state, run,
                  current_token, pc,
                  next_page_token, tries, records, out, error, hist_vars, last_call >>

Next ==
  \/ NewDay
  \/ \E context \in {None} \cup Tokens : StartRun(context)
  \/ BeginPartition
  \/ \E e \in RequestErrors : RetryAttempt(e)
  \/ \E e \in RequestErrors : RequestRaises(e)
  \/ ParseRaises
  \/ PageSuccess
  \/ YieldRecords
  \/ FinalizeState

Spec == Init /\ [][Next]_vars

\* the steps of a sync run: each is taken once it is due (every request attempt
\* returns or fails, and the harness keeps consuming request_records)
RunStep ==
  \/ BeginPartition
  \/ \E e \in RequestErrors : RetryAttempt(e)
  \/ \E e \in RequestErrors : RequestRaises(e)
  \/ ParseRaises
  \/ PageSuccess
  \/ YieldRecords
  \/ FinalizeState

\* the daily stream before its last modelled sync
LiveInit ==
  /\ Constructed
  /\ stream = "daily"
  /\ token_count = NumTokens
  /\ wait_time = 1
  /\ run = MaxRuns - 1
  /\ today \in 1 .. MaxDay
  /\ now = today * OneDay
  /\ days = "1"
  /\ bookmark = [t \in Tokens |-> None]
  /\ phase = "idle"

LiveSpec == LiveInit /\ [][Next]_vars /\ WF_vars(RunStep)

\* ------------------------------------------------------- the hourly stream
\* CoingeckoHourlyStream inherits request_records, request_decorator and
\* get_starting_replication_key_value and overrides the token sequencer and the
\* page loop.  A token is a datetime: next_page_token holds its tick and
\* token_naive tells whether it carries no time zone.

DaysParams == {"1", "30", "31", "max"}

isdigit(s) == s # "max"

int_of(s) == CASE s = "1" -> 1 [] s = "30" -> 30 [] s = "31" -> 31

is_backfill_always(days_param) == TRUE

is_backfill(days_param) ==
  days_param = "max" \/ (isdigit(days_param) /\ int_of(days_param) > 30)

\* int(dt.timestamp() * 1000)
datetime_to_ms(dt) == IF dt = None THEN None ELSE dt * TickMs

\* datetime.fromtimestamp(ms / 1000): a naive datetime
fromtimestamp(ms) == ms \div TickMs

\* int(pendulum.now(tz="UTC").timestamp() * 1000)
hourly_get_replication_key_signpost == now * TickMs

chunk_size_ms == chunk_days * OneDay * TickMs

NoToken == [tok |-> None, naive |-> FALSE]

hourly_get_next_page_token_uncapped(has_response, previous_token, previous_naive, t) ==
  LET old_token == IF previous_token # None THEN previous_token
                   ELSE get_starting_replication_key_value(t)
      old_naive == previous_token # None /\ previous_naive
      signpost == hourly_get_replication_key_signpost
      internal_token == datetime_to_ms(old_token)
  IN  IF ~ has_response THEN [tok |-> old_token, naive |-> old_naive]
      ELSE IF ~ is_backfill(days) \/ internal_token >= signpost THEN NoToken
      ELSE [tok |-> fromtimestamp(internal_token + chunk_size_ms), naive |-> TRUE]

\* CoingeckoHourlyStream.get_next_page_token; has_response is response is not None
hourly_get_next_page_token(has_response, previous_token, previous_naive, t) ==
  LET old_token == IF previous_token # None THEN previous_token
                   ELSE get_starting_replication_key_value(t)
      old_naive == previous_token # None /\ previous_naive
      signpost == hourly_get_replication_key_signpost
      internal_token == datetime_to_ms(old_token)
      capped == IF internal_token + chunk_size_ms > signpost
                THEN signpost ELSE internal_token + chunk_size_ms
  IN  IF ~ has_response THEN [tok |-> old_token, naive |-> old_naive]
      ELSE IF internal_token = None THEN NoToken
      ELSE IF ~ is_backfill(days) \/ internal_token >= signpost THEN NoToken
      ELSE IF capped = internal_token THEN NoToken
      ELSE [tok |-> fromtimestamp(capped), naive |-> TRUE]

\* the end of one iteration of the hourly page loop: a token equal to the one
\* just requested only logs an error and breaks; a naive and an aware datetime
\* never compare equal
hourly_page_loop_guard(nxt, nxt_naive, previous_token, previous_naive) ==
  IF nxt = previous_token /\ nxt_naive = previous_naive THEN "break"
  ELSE IF nxt = None THEN "exit"
  ELSE "continue"

\* the "prices" timestamps of a market_chart response: the latest datapoint
market_chart == << hourly_get_replication_key_signpost >>

\* CoingeckoHourlyStream.parse_response: one record per price datapoint
hourly_parse_response(prices) ==
  [i \in 1 .. Len(prices) |-> [token |-> current_token, timestamp |-> prices[i]]]

\* the hourly stream before a sync; it keeps no state between runs, so one sync
\* is followed
HourlySetup ==
  /\ stream = "hourly"
  /\ token_count = NumTokens
  /\ wait_time = 1
  /\ run = MaxRuns - 1
  /\ now \in {MaxTick - 1, MaxTick}
  /\ today = strftime(now)
  /\ days \in DaysParams

HourlyInit ==
  /\ Constructed
  /\ HourlySetup
  /\ bookmark = [t \in Tokens |-> None]
  /\ phase = "idle"

\* the wall clock advances by one tick
HTick ==
  /\ stream = "hourly"
  /\ phase = "running" /\ pc = "request" /\ tries = 0
  /\ now < MaxTick
  /\ now' = now + 1
  /\ today' = strftime(now')
  /\ UNCHANGED << env_vars, snap_vars, loop_vars, rate_vars, start_date, bookmark, progress_marker,
                  stream_state, run, phase, current_token, pc, next_page_token, tries,
                  records, out, error, hist_vars, last_call >>

\* _fetch_token_data starts for the current token: the initial call always
\* returns the starting value as the first token
HBeginPartition ==
  /\ stream = "hourly"
  /\ phase = "running" /\ pc = "begin"
  /\ LET t == current_token
         first == hourly_get_next_page_token(FALSE, None, FALSE, t)
     IN  /\ start_used' = [start_used EXCEPT ![t] = get_starting_replication_key_value(t)]
         /\ next_page_token' = first.tok
         /\ token_naive' = first.naive
         /\ pc' = IF first.tok = None THEN "yield" ELSE "prepare"
  /\ iteration_count' = 0
  /\ records' = << >>
  /\ tries' = 0
  /\ sleeps' = << >>
  /\ UNCHANGED << env_vars, snap_vars, now, sleep_total, start_date, today, bookmark, progress_marker,
                  stream_state, run, phase, current_token, out, error, pages,
                  sp_first, sp_stable, run_sps, prev_sps, prev_ok, last_tries,
                  last_error, run_start_bookmark, last_call >>

\* get_url_params computes next_page_token - start_time, where start_time is
\* the aware starting value.  datetime refuses to subtract an aware from a naive
\* datetime; whether pendulum's reflected operator refuses too is left open
subtraction_outcomes ==
  IF token_naive THEN {"TypeError", "days_diff"} ELSE {"days_diff"}

within_iterations_always(n) == TRUE

\* the hourly page loop's condition on its iteration counter
within_iterations(n) == n < max_iterations

\* the head of one iteration of the hourly page loop: the loop condition, the
\* iteration counter and prepare_request
HPrepare ==
  /\ stream = "hourly"
  /\ phase = "running" /\ pc = "prepare"
  /\ IF within_iterations(iteration_count)
     THEN /\ iteration_count' = iteration_count + 1
          /\ \E outcome \in subtraction_outcomes :
               IF outcome = "TypeError"
               THEN /\ Raise("TypeError")
                    /\ UNCHANGED << pages >>
               ELSE /\ pc' = "request"
                    /\ pages' = [pages EXCEPT ![current_token] =
                                   Append(@, next_page_token)]
                    /\ UNCHANGED << phase, error, records, next_page_token >>
     ELSE /\ pc' = "yield"
          /\ UNCHANGED << iteration_count, pages, phase, error, records, next_page_token >>
  /\ UNCHANGED << env_vars, snap_vars, token_naive, rate_vars, now, start_date, today, bookmark,
                  progress_marker, stream_state, run, current_token, tries, out,
                  start_used, sp_first, sp_stable, run_sps, prev_sps, prev_ok,
                  last_tries, last_error, run_start_bookmark, last_call >>

\* the attempt succeeds: the records are parsed and collected and the next
\* token computed; the hourly loop writes no state
HPageSuccess ==
  /\ stream = "hourly"
  /\ phase = "running" /\ pc = "request"
  /\ tries' = 0
  /\ last_tries' = tries + 1
  /\ last_error' = "none"
  /\ records' = records \o hourly_parse_response(market_chart)
  /\ LET previous_token == next_page_token
         nxt == hourly_get_next_page_token(TRUE, previous_token, token_naive, current_token)
         guard == hourly_page_loop_guard(nxt.tok, nxt.naive, previous_token, token_naive)
     IN  IF guard = "continue"
         THEN /\ next_page_token' = nxt.tok
              /\ token_naive' = nxt.naive
              /\ pc' = "prepare"
              /\ sleeps' = rate_limit_pause
              /\ sleep_total' = sleep_total + Len(rate_limit_pause)
         ELSE /\ next_page_token' = nxt.tok
              /\ token_naive' = nxt.naive
              /\ pc' = "yield"
              /\ sleeps' = << >>
              /\ sleep_total' = sleep_total
  /\ UNCHANGED << env_vars, snap_vars, iteration_count, now, start_date, today, bookmark,
                  progress_marker, stream_state, run, phase, current_token, out, error,
                  pages, start_used, sp_first, sp_stable, run_sps, prev_sps, prev_ok,
                  run_start_bookmark, last_call >>

HourlyNext ==
  \/ HTick
  \/ HBeginPartition
  \/ HPrepare
  \/ HPageSuccess

\* both stream classes of the tap
StreamsSpec == (Init \/ HourlyInit) /\ [][Next \/ HourlyNext]_vars

\* a long hourly sync: the wall clock runs on for more ticks than the page
\* loop has iterations, and moves by at most one tick while a page is requested
LongClock == max_iterations + MaxTick + 2

LongInit ==
  /\ Constructed
  /\ HourlySetup
  /\ api_url = PRO
  /\ days \in {"30", "max"}
  /\ now = MaxTick
  /\ start_date \in {0, MaxTick}
  /\ bookmark = [t \in Tokens |-> None]
  /\ phase = "idle"

LongTick ==
  /\ stream = "hourly"
  /\ phase = "running" /\ pc = "request" /\ tries = 0
  /\ now <= next_page_token
  /\ now < LongClock
  /\ now' = now + 1
  /\ today' = strftime(now')
  /\ UNCHANGED << env_vars, snap_vars, loop_vars, rate_vars, start_date, bookmark,
                  progress_marker, stream_state, run, phase, current_token, pc,
                  next_page_token, tries, records, out, error, hist_vars, last_call >>

LongNext ==
  \/ StartRun(None)
  \/ LongTick
  \/ HBeginPartition
  \/ HPrepare
  \/ HPageSuccess
  \/ YieldRecords
  \/ FinalizeState

LongSpec == LongInit /\ [][LongNext]_vars

\* ------------------------------------------------- the snapshot streams
\* AssetProfileStream and CoinCategoriesStream make one request per configured
\* token.  A record in out carries, besides its fields, the token whose request
\* produced it.

SnapshotStreams == {"asset_profile", "categories"}

\* the variables the snapshot streams neither read nor write
snap_untouched == << start_date, loop_vars, stream_state, next_page_token, records,
                     sp_first, sp_stable, run_sps, prev_sps, prev_ok, start_used,
                     last_call >>

\* a JSON body: a key of the object is Absent, null (None) or a value; the empty
\* string is EmptyStr
Absent == -2
EmptyStr == 0

get(field) == IF field = Absent THEN None ELSE field

falsy(x) == x = None \/ x = EmptyStr

NotJSON == [json |-> FALSE, id |-> Absent, name |-> Absent, symbol |-> Absent,
            categories |-> [has |-> FALSE, list |-> << >>]]

Bodies == [json : BOOLEAN,
           id : {Absent, None, EmptyStr} \cup Tokens,
           name : {Absent, None, 1},
           symbol : {Absent, 1},
           categories : [has : BOOLEAN, list : {<< >>, << 1 >>, << 1, 2 >>}]]

\* the bodies a request for token t meets during a sync
RunBodies(t) ==
  {NotJSON,
   [json |-> TRUE, id |-> t, name |-> 1, symbol |-> 1,
    categories |-> [has |-> TRUE, list |-> << 1 >>]],
   [json |-> TRUE, id |-> Absent, name |-> Absent, symbol |-> Absent,
    categories |-> [has |-> FALSE, list |-> << >>]]}

categories_parse_response_id_only(body, token) ==
  IF ~ body.json
  THEN [raised |-> "FatalAPIError", records |-> << >>]
  ELSE IF falsy(get(body.id))
  THEN [raised |-> "none", records |-> << >>]
  ELSE [raised |-> "none",
        records |-> << [coin_id |-> get(body.id),
                        name |-> get(body.name),
                        symbol |-> get(body.symbol),
                        categories |-> IF body.categories.has
                                       THEN body.categories.list ELSE << >>] >>]

\* CoinCategoriesStream.parse_response, with self.current_token = token
categories_parse_response(body, token) ==
  IF ~ body.json
  THEN [raised |-> "FatalAPIError", records |-> << >>]
  ELSE LET record_coin_id == IF falsy(get(body.id)) /\ ~ falsy(token)
                             THEN token ELSE get(body.id)
       IN  IF falsy(record_coin_id)
           THEN [raised |-> "none", records |-> << >>]
           ELSE [raised |-> "none",
                 records |-> << [coin_id |-> record_coin_id,
                                 name |-> get(body.name),
                                 symbol |-> get(body.symbol),
                                 categories |-> IF body.categories.has
                                                THEN body.categories.list
                                                ELSE << >>] >>]

\* url_base of the stream classes: the configured URL when it is one of the two
\* tiers, ValueError otherwise; read by prepare_request, not by __init__
url_base == IF api_url \in {PRO, FREE} THEN api_url ELSE "ValueError"

WhitelistConn == {"RetriableAPIError", "ReadTimeout", "ConnectionError"}

\* AssetProfileStream.request_decorator
asset_giveup(e, n) == e \notin WhitelistConn \/ n >= asset_max_tries

\* CoinCategoriesStream.request_decorator
categories_giveup(e, n) == e \notin WhitelistConn \/ n >= categories_max_tries

\* whether an attempt that raised e, the n-th, is the last: the asset-profile
\* stream calls request_decorator(self._request), the categories stream calls
\* self._request itself
snap_giveup(e, n) ==
  IF stream = "asset_profile" THEN asset_giveup(e, n) ELSE TRUE

\* the exceptions a request of a snapshot stream can raise
SnapRequestErrors ==
  IF stream = "categories" THEN RequestErrors \cup {"HTTPError"} ELSE RequestErrors

StatusCodes == {200, 404, 500}

categories_rate_limit_always ==
  IF wait_time > 0 THEN << wait_time >> ELSE << >>

\* the rate limiting that ends the categories stream's loop body
categories_rate_limit ==
  IF api_url # PRO
  THEN IF wait_time > 0 THEN << wait_time >> ELSE << >>
  ELSE << >>

already_synced_never(t) == FALSE

\* AssetProfileStream.request_records: token t was already synced today
already_synced(t) == bookmark[t] # None /\ bookmark[t] >= today_str

\* a snapshot stream class and its configuration; the categories stream keeps
\* nothing between two runs, so one run of it is explored, and two runs of the
\* asset-profile stream
SnapConfigured ==
  /\ stream \in SnapshotStreams
  /\ api_url \in {PRO, FREE, INVALID}
  /\ token_count \in {0, NumTokens}
  /\ wait_time \in 0 .. MaxWait
  /\ start_date = 0
  /\ days = "1"
  /\ today = 1
  /\ now = today * OneDay
  /\ run = IF stream = "asset_profile" THEN MaxRuns - 2 ELSE MaxRuns - 1
  /\ bookmark = [t \in Tokens |-> None]
  /\ progress_marker = [t \in Tokens |-> None]
  /\ stream_state = [t \in Tokens |-> None]
  /\ token_naive = FALSE
  /\ iteration_count = 0
  /\ today_str = None
  /\ token_result = [t \in Tokens |-> "none"]
  /\ sleeps = << >>
  /\ sleep_total = 0
  /\ current_token = 0
  /\ pc = "none"
  /\ next_page_token = None
  /\ tries = 0
  /\ records = << >>
  /\ out = << >>
  /\ error = "none"
  /\ HistInit
  /\ last_call = NoCall

\* before the stream object is constructed
SnapInit ==
  /\ SnapConfigured
  /\ phase = "new"

\* RESTStream.__init__ of a stream class: the configuration is stored, url_base
\* is not evaluated
Construct ==
  /\ phase = "new"
  /\ phase' = "idle"
  /\ UNCHANGED << env_vars, snap_vars, snap_untouched, rate_vars, now, today, bookmark,
                  progress_marker, run, current_token, pc, tries, out, error, pages,
                  last_tries, last_error, run_start_bookmark >>

\* the harness calls request_records
SnapStartRun ==
  /\ phase \in {"idle", "done", "failed"}
  /\ run < MaxRuns
  /\ run' = run + 1
  /\ today_str' = IF stream = "asset_profile" THEN today ELSE None
  /\ token_result' = [t \in Tokens |-> "none"]
  /\ progress_marker' = [t \in Tokens |-> None]
  /\ out' = << >>
  /\ error' = "none"
  /\ pages' = [t \in Tokens |-> << >>]
  /\ sleeps' = << >>
  /\ sleep_total' = 0
  /\ tries' = 0
  /\ last_tries' = 0
  /\ last_error' = "none"
  /\ run_start_bookmark' = bookmark
  /\ IF token_count = 0
     THEN phase' = "finalize" /\ pc' = "none" /\ current_token' = 0
     ELSE phase' = "running" /\ pc' = "begin" /\ current_token' = 1
  /\ UNCHANGED << env_vars, snap_untouched, now, today, bookmark >>

\* the UTC date changes between two runs or between two tokens; only the
\* asset-profile stream reads the date
SnapNewDay ==
  /\ stream = "asset_profile"
  /\ \/ phase \in {"idle", "done", "failed"}
     \/ phase = "running" /\ pc = "begin"
  /\ today < MaxDay
  /\ today' = today + 1
  /\ now' = today' * OneDay
  /\ UNCHANGED << env_vars, snap_vars, snap_untouched, rate_vars, bookmark,
                  progress_marker, run, phase, current_token, pc, tries, out, error,
                  pages, last_tries, last_error, run_start_bookmark >>

NextToken_first_only ==
  current_token' = current_token /\ pc' = "none" /\ phase' = "finalize"

\* the loop over config["token"] moves on
NextToken ==
  IF current_token < token_count
  THEN current_token' = current_token + 1 /\ pc' = "begin" /\ phase' = phase
  ELSE current_token' = current_token /\ pc' = "none" /\ phase' = "finalize"

\* the end of the loop body: the categories stream's rate limiting comes first
AfterToken ==
  IF stream = "categories"
  THEN pc' = "rate_limit" /\ UNCHANGED << current_token, phase >>
  ELSE NextToken

is_soft_skip_never(status) == FALSE

\* AssetProfileStream.request_records: the HTTPError that is logged and skipped
is_soft_skip(status) == status = 404

handled_api_errors(e) ==
  stream = "categories" /\ e \in {"RetriableAPIError", "FatalAPIError", "HTTPError"}

\* the exceptions of the loop body's try block that the loop body catches: all
\* in the categories stream; the asset-profile stream catches HTTPError only,
\* which is_soft_skip sorts
handled(e) == stream = "categories"

\* an exception leaves request_records
SnapRaise(e) ==
  /\ phase' = "failed"
  /\ pc' = "none"
  /\ error' = e
  /\ current_token' = current_token

\* the loop body starts for the current token: the asset-profile stream skips
\* a token synced today; otherwise the request is prepared
SnapBegin ==
  /\ phase = "running" /\ pc = "begin"
  /\ sleeps' = << >>
  /\ LET t == current_token
     IN  IF stream = "asset_profile" /\ already_synced(t)
         THEN /\ NextToken
              /\ token_result' = [token_result EXCEPT ![t] = "skipped"]
              /\ UNCHANGED << pages, error, last_error >>
         ELSE IF url_base = "ValueError"
         THEN /\ token_result' = [token_result EXCEPT ![t] = "ValueError"]
              /\ last_error' = "ValueError"
              /\ pages' = pages
              /\ IF handled("ValueError")
                 THEN AfterToken /\ error' = error
                 ELSE SnapRaise("ValueError")
         ELSE /\ pc' = "request"
              /\ pages' = [pages EXCEPT ![t] = Append(@, today)]
              /\ UNCHANGED << current_token, phase, error, token_result, last_error >>
  /\ UNCHANGED << env_vars, today_str, snap_untouched, sleep_total, now, today,
                  bookmark, progress_marker, run, tries, out, last_tries,
                  run_start_bookmark >>

\* one attempt fails and is tried again
SnapRetryAttempt(e) ==
  /\ phase = "running" /\ pc = "request"
  /\ ~ snap_giveup(e, tries + 1)
  /\ tries' = tries + 1
  /\ last_error' = e
  /\ UNCHANGED << env_vars, snap_vars, snap_untouched, rate_vars, now, today, bookmark,
                  progress_marker, run, phase, current_token, pc, out, error, pages,
                  last_tries, run_start_bookmark >>

\* one attempt fails for good: the asset-profile stream lets the exception
\* leave request_records, the categories stream logs it and goes on
SnapRequestRaises(e) ==
  /\ phase = "running" /\ pc = "request"
  /\ snap_giveup(e, tries + 1)
  /\ tries' = 0
  /\ last_tries' = tries + 1
  /\ last_error' = e
  /\ token_result' = [token_result EXCEPT ![current_token] = e]
  /\ IF handled(e)
     THEN AfterToken /\ error' = error
     ELSE SnapRaise(e)
  /\ UNCHANGED << env_vars, today_str, snap_untouched, rate_vars, now, today, bookmark,
                  progress_marker, run, out, pages, run_start_bookmark >>

\* the harness, on a record of the asset-profile stream: snapshot_date is
\* written as the token's progress marker
harness_increment_state(t, snapshot_date) ==
  [progress_marker EXCEPT ![t] = increment_stream_state(@, snapshot_date)]

\* the request returns a response
SnapResponse(status, body) ==
  /\ phase = "running" /\ pc = "request"
  /\ stream = "categories" => status = 200
  /\ tries' = 0
  /\ last_tries' = tries + 1
  /\ last_error' = "none"
  /\ LET t == current_token
         parsed == categories_parse_response(body, t)
     IN  IF stream = "asset_profile"
         THEN IF status # 200
              THEN /\ token_result' = [token_result EXCEPT ![t] =
                                         IF status = 404 THEN "HTTPError404"
                                         ELSE "HTTPError"]
                   /\ IF is_soft_skip(status)
                      THEN NextToken /\ error' = error
                      ELSE SnapRaise("FatalAPIError")
                   /\ UNCHANGED << out, progress_marker >>
              ELSE IF ~ body.json
              THEN /\ token_result' = [token_result EXCEPT ![t] = "FatalAPIError"]
                   /\ SnapRaise("FatalAPIError")
                   /\ UNCHANGED << out, progress_marker >>
              ELSE /\ token_result' = [token_result EXCEPT ![t] = "ok"]
                   /\ out' = Append(out, [token |-> t, snapshot_date |-> today])
                   /\ progress_marker' = harness_increment_state(t, today)
                   /\ NextToken
                   /\ error' = error
         ELSE /\ token_result' = [token_result EXCEPT ![t] =
                                    IF parsed.raised # "none" THEN parsed.raised ELSE "ok"]
              /\ out' = out \o [i \in 1 .. Len(parsed.records) |->
                                  [token |-> t, record |-> parsed.records[i]]]
              /\ IF parsed.raised = "none" \/ handled(parsed.raised)
                 THEN AfterToken /\ error' = error
                 ELSE SnapRaise(parsed.raised)
              /\ UNCHANGED << progress_marker >>
  /\ UNCHANGED << env_vars, today_str, snap_untouched, rate_vars, now, today, bookmark,
                  run, pages, run_start_bookmark >>

\* the categories stream's rate limiting after a token
SnapRateLimit ==
  /\ phase = "running" /\ pc = "rate_limit"
  /\ sleeps' = categories_rate_limit
  /\ sleep_total' = sleep_total + Len(categories_rate_limit)
  /\ NextToken
  /\ UNCHANGED << env_vars, snap_vars, snap_untouched, now, today, bookmark,
                  progress_marker, run, tries, out, error, pages, last_tries,
                  last_error, run_start_bookmark >>

SnapNext ==
  \/ Construct
  \/ SnapStartRun
  \/ SnapNewDay
  \/ SnapBegin
  \/ \E e \in SnapRequestErrors : SnapRetryAttempt(e)
  \/ \E e \in SnapRequestErrors : SnapRequestRaises(e)
  \/ \E status \in StatusCodes, body \in RunBodies(current_token) : SnapResponse(status, body)
  \/ SnapRateLimit
  \/ FinalizeState

SnapSpec == SnapInit /\ [][SnapNext]_vars

\* CoinCategoriesStream.parse_response called on any body, during the
\* processing of any token
ParseInit ==
  /\ SnapConfigured
  /\ stream = "categories"
  /\ phase = "pure"

CallParseResponse(body, token) ==
  /\ phase = "pure"
  /\ last_call' = [op |-> "parse_response", body |-> body, token |-> token,
                   result |-> categories_parse_response(body, token)]
  /\ phase' = "called"
  /\ UNCHANGED << env_vars, snap_vars, loop_vars, rate_vars, now, start_date, today,
                  bookmark, progress_marker, stream_state, run, current_token,
                  pc, next_page_token, tries, records, out, error, hist_vars >>

ParseNext == \E body \in Bodies, token \in Tokens : CallParseResponse(body, token)

ParseSpec == ParseInit /\ [][ParseNext]_vars

\* ------------------------------------------------- the coin-list stream
\* CoinListStream.get_records sleeps and then makes the stream's one request.

\* CoinListStream.get_records: time.sleep(wait_time) when wait_time > 0
coin_list_sleep == IF wait_time > 0 THEN << wait_time >> ELSE << >>

\* the coin lists a response can hold: the number of coins
CoinLists == 0 .. 3

ListInit ==
  /\ Constructed
  /\ stream = "coin_list"
  /\ start_date = 0
  /\ token_count = NumTokens
  /\ wait_time \in 0 .. MaxWait
  /\ days = "1"
  /\ today = 1
  /\ now = today * OneDay
  /\ run = 0
  /\ bookmark = [t \in Tokens |-> None]
  /\ phase = "idle"

\* get_records up to the request: the courtesy sleep
ListGetRecords ==
  /\ stream = "coin_list"
  /\ phase \in {"idle", "done", "failed"}
  /\ run < MaxRuns
  /\ run' = run + 1
  /\ sleeps' = coin_list_sleep
  /\ sleep_total' = Len(coin_list_sleep)
  /\ phase' = "running"
  /\ pc' = "request"
  /\ out' = << >>
  /\ error' = "none"
  /\ UNCHANGED << env_vars, snap_vars, loop_vars, now, start_date, today, bookmark,
                  progress_marker, stream_state, current_token, next_page_token,
                  tries, records, hist_vars, last_call >>

\* request_records raises
ListRequestRaises(e) ==
  /\ stream = "coin_list"
  /\ phase = "running" /\ pc = "request"
  /\ phase' = "failed"
  /\ pc' = "none"
  /\ error' = e
  /\ UNCHANGED << env_vars, snap_vars, loop_vars, rate_vars, now, start_date, today,
                  bookmark, progress_marker, stream_state, run, current_token,
                  next_page_token, tries, records, out, hist_vars, last_call >>

\* request_records yields the coins of the response
ListResponse(coins) ==
  /\ stream = "coin_list"
  /\ phase = "running" /\ pc = "request"
  /\ out' = [i \in 1 .. coins |-> [id |-> i]]
  /\ phase' = "done"
  /\ pc' = "none"
  /\ UNCHANGED << env_vars, snap_vars, loop_vars, rate_vars, now, start_date, today,
                  bookmark, progress_marker, stream_state, run, current_token,
                  next_page_token, tries, records, error, hist_vars, last_call >>

ListNext ==
  \/ ListGetRecords
  \/ \E e \in RequestErrors : ListRequestRaises(e)
  \/ \E coins \in CoinLists : ListResponse(coins)

ListSpec == ListInit /\ [][ListNext]_vars

\* ------------------------------------------ the asset-market-quality stream
\* AssetMarketQualityStream pages through the tickers of each configured
\* token.  pages holds the page tokens produced for a token, out one entry per
\* response with the number of tickers it held.

\* empty, one short of full, full, and more than full
TickerCounts == {0, tickers_per_page - 1, tickers_per_page, MaxTickers}

mq_get_next_page_token_ge(tickers, previous_token) ==
  LET current_page == IF previous_token # None THEN previous_token ELSE 1
  IN  IF tickers >= tickers_per_page THEN current_page + 1 ELSE None

\* AssetMarketQualityStream.get_next_page_token; tickers is
\* len(response.json().get("tickers", []))
mq_get_next_page_token(tickers, previous_token) ==
  LET current_page == IF previous_token # None THEN previous_token ELSE 1
  IN  IF tickers = tickers_per_page THEN current_page + 1 ELSE None

MarketInit ==
  /\ Constructed
  /\ stream = "asset_market_quality"
  /\ start_date = 0
  /\ api_url = PRO
  /\ token_count = NumTokens
  /\ wait_time = 0
  /\ days = "1"
  /\ today = 1
  /\ now = today * OneDay
  /\ run = MaxRuns - 1
  /\ bookmark = [t \in Tokens |-> None]
  /\ phase = "idle"

\* get_records: the tokens are paged through in configuration order
MarketGetRecords ==
  /\ stream = "asset_market_quality"
  /\ phase = "idle"
  /\ run < MaxRuns
  /\ run' = run + 1
  /\ phase' = "running"
  /\ pc' = "request"
  /\ current_token' = 1
  /\ next_page_token' = None
  /\ UNCHANGED << env_vars, snap_vars, loop_vars, rate_vars, now, start_date, today,
                  bookmark, progress_marker, stream_state, tries, records, out, error,
                  hist_vars, last_call >>

\* a response with the given number of tickers arrives: the next page token
\* is computed from it and from the token of the page just requested
MarketResponse(tickers) ==
  /\ stream = "asset_market_quality"
  /\ phase = "running" /\ pc = "request"
  /\ LET t == current_token
         nxt == mq_get_next_page_token(tickers, next_page_token)
     IN  /\ nxt # None => Len(pages[t]) < MaxPage
         /\ last_call' = [op |-> "mq_get_next_page_token", tickers |-> tickers,
                          previous_token |-> next_page_token, result |-> nxt]
         /\ out' = Append(out, [token |-> t, tickers |-> tickers])
         /\ IF nxt # None
            THEN /\ next_page_token' = nxt
                 /\ pages' = [pages EXCEPT ![t] = Append(@, nxt)]
                 /\ UNCHANGED << current_token, phase, pc >>
            ELSE /\ next_page_token' = None
                 /\ pages' = pages
                 /\ IF t < token_count
                    THEN current_token' = t + 1 /\ UNCHANGED << phase, pc >>
                    ELSE current_token' = t /\ phase' = "done" /\ pc' = "none"
  /\ UNCHANGED << env_vars, snap_vars, loop_vars, rate_vars, now, start_date, today,
                  bookmark, progress_marker, stream_state, run, tries, records, error,
                  start_used, sp_first, sp_stable, run_sps, prev_sps, prev_ok,
                  last_tries, last_error, run_start_bookmark >>

MarketNext ==
  \/ MarketGetRecords
  \/ \E tickers \in TickerCounts : MarketResponse(tickers)

MarketSpec == MarketInit /\ [][MarketNext]_vars

\* ------------------------------------------- the stateless methods, called
\* directly with inputs drawn from bounded sets

\* a stream constructed over any persisted state
SeqInit ==
  /\ Constructed
  /\ DailySetup
  /\ bookmark \in [Tokens -> {None} \cup Days]
  /\ phase = "pure"

\* get_next_page_token(response, previous_token, context) for the partition t
CallGetNextPageToken(previous_token, t) ==
  /\ phase = "pure"
  /\ last_call' = [op |-> "get_next_page_token",
                   previous_token |-> previous_token,
                   start |-> get_starting_replication_key_value(t),
                   signpost |-> get_replication_key_signpost,
                   result |-> get_next_page_token(previous_token, t)]
  /\ UNCHANGED << env_vars, snap_vars, loop_vars, rate_vars, now, start_date, today, bookmark, progress_marker,
                  stream_state, run,
                  phase, current_token, pc, next_page_token, tries, records, out,
                  error, hist_vars >>

SeqNext == \E previous_token \in {None} \cup Ticks, t \in Tokens :
             CallGetNextPageToken(previous_token, t)

SeqSpec == SeqInit /\ [][SeqNext]_vars

StateInit ==
  /\ Constructed
  /\ DailySetup
  /\ bookmark = [t \in Tokens |-> None]
  /\ phase = "pure"

LatestRecords ==
  [token : Tokens, is_datetime : {FALSE}, date : Days]
    \cup [token : Tokens, is_datetime : {TRUE}, date : Ticks]

\* get_updated_state(current_stream_state, latest_record), the result being
\* the caller's next current_stream_state
CallGetUpdatedState(latest_record) ==
  /\ phase = "pure"
  /\ stream_state' = get_updated_state(stream_state, latest_record)
  /\ last_call' = [op |-> "get_updated_state", latest_record |-> latest_record]
  /\ UNCHANGED << env_vars, snap_vars, loop_vars, rate_vars, now, start_date, today, bookmark, progress_marker,
                  run, phase,
                  current_token, pc, next_page_token, tries, records, out, error,
                  hist_vars >>

StateNext == \E latest_record \in LatestRecords : CallGetUpdatedState(latest_record)

StateSpec == StateInit /\ [][StateNext]_vars

\* Stream._increment_stream_state(record, context={"token": record["token"]})
\* called directly, as the page loop and the state test call it; records holds
\* the records passed so far
MaxRecords == 3

IncInit ==
  /\ Constructed
  /\ DailySetup
  /\ start_date = 0
  /\ api_url = PRO
  /\ today = MaxDay
  /\ bookmark = [t \in Tokens |-> None]
  /\ phase = "pure"

CallIncrementStreamState(record) ==
  /\ phase = "pure"
  /\ Len(records) < MaxRecords
  /\ progress_marker' = [progress_marker EXCEPT
                           ![record.token] = increment_stream_state(@, record.date)]
  /\ records' = Append(records, record)
  /\ last_call' = [op |-> "_increment_stream_state", record |-> record]
  /\ UNCHANGED << env_vars, snap_vars, loop_vars, rate_vars, now, start_date, today,
                  bookmark, stream_state, run, phase, current_token, pc,
                  next_page_token, tries, out, error, hist_vars >>

IncNext == \E record \in [token : Tokens, date : Days] : CallIncrementStreamState(record)

IncSpec == IncInit /\ [][IncNext]_vars

\* the hourly sequencer called directly: the clock is within a few ticks of
\* the epoch or a little more than one chunk after it
HourlyNows == Ticks \cup (chunk_days * OneDay .. chunk_days * OneDay + MaxTick + 1)

HSeqInit ==
  /\ Constructed
  /\ stream = "hourly"
  /\ token_count = NumTokens
  /\ wait_time = 1
  /\ run = 0
  /\ now \in HourlyNows
  /\ today = strftime(now)
  /\ days \in DaysParams
  /\ bookmark = [t \in Tokens |-> None]
  /\ phase = "pure"

\* get_next_page_token(response, previous_token, context) of the hourly stream
CallHourlyGetNextPageToken(has_response, previous_token, previous_naive, t) ==
  /\ phase = "pure"
  /\ phase' = "called"
  /\ last_call' = [op |-> "hourly_get_next_page_token",
                   has_response |-> has_response,
                   previous_token |-> previous_token,
                   start |-> get_starting_replication_key_value(t),
                   signpost |-> hourly_get_replication_key_signpost,
                   result |-> hourly_get_next_page_token(has_response, previous_token,
                                                         previous_naive, t)]
  /\ UNCHANGED << env_vars, snap_vars, loop_vars, rate_vars, now, start_date, today,
                  bookmark, progress_marker, stream_state, run, current_token, pc,
                  next_page_token, tries, records, out, error, hist_vars >>

HSeqNext ==
  \E has_response \in BOOLEAN, previous_token \in {None} \cup Ticks,
     previous_naive \in BOOLEAN, t \in Tokens :
    CallHourlyGetNextPageToken(has_response, previous_token, previous_naive, t)

HSeqSpec == HSeqInit /\ [][HSeqNext]_vars

\* the check that ends an iteration of either page loop, called on any pair of
\* tokens; the daily loop's tokens are all aware datetimes
GuardInit ==
  /\ Constructed
  /\ DailySetup \/ HourlySetup
  /\ bookmark = [t \in Tokens |-> None]
  /\ phase = "pure"

CallLoopGuard(nxt, nxt_naive, previous_token, previous_naive) ==
  /\ phase = "pure"
  /\ stream = "daily" => (~ nxt_naive /\ ~ previous_naive)
  /\ nxt = None => ~ nxt_naive
  /\ last_call' = [op |-> "loop_guard",
                   next_page_token |-> nxt, next_naive |-> nxt_naive,
                   previous_token |-> previous_token, previous_naive |-> previous_naive,
                   outcome |-> IF stream = "daily"
                               THEN page_loop_guard(nxt, previous_token)
                               ELSE hourly_page_loop_guard(nxt, nxt_naive,
                                                           previous_token, previous_naive)]
  /\ UNCHANGED << env_vars, snap_vars, loop_vars, rate_vars, now, start_date, today, bookmark,
                  progress_marker, stream_state, run, phase, current_token, pc,
                  next_page_token, tries, records, out, error, hist_vars >>

GuardNext == \E nxt \in {None} \cup Ticks, previous_token \in Ticks,
                nxt_naive \in BOOLEAN, previous_naive \in BOOLEAN :
               CallLoopGuard(nxt, nxt_naive, previous_token, previous_naive)

GuardSpec == GuardInit /\ [][GuardNext]_vars

\* ----------------------------------------------------------------- claims
Range(s) == {s[i] : i \in 1 .. Len(s)}

\* the sync of partition t has ended normally in this run
Completed(t) ==
  /\ start_used[t] # None
  /\ \/ t < current_token
     \/ t = current_token /\ (pc = "yield" \/ phase \in {"finalize", "done"})

\* C1: get_next_page_token returns current + 1 day when current < signpost and
\* no token when current >= signpost, current being previous_token when one is
\* given and the resolved starting cursor otherwise.
C1_NextPageToken ==
  last_call.op = "get_next_page_token" =>
    LET current == IF last_call.previous_token # None THEN last_call.previous_token
                   ELSE last_call.start
    IN  /\ current < last_call.signpost => last_call.result = current + OneDay
        /\ current >= last_call.signpost => last_call.result = None

C1_Witness ==
  /\ last_call.op = "get_next_page_token"
  /\ last_call.previous_token # None
  /\ last_call.previous_token = last_call.signpost
  /\ last_call.start < last_call.signpost

\* C2: a partition with day-aligned start S below a signpost P that stays the
\* same, and that ends normally, has requested exactly the dates S+1 .. P, in
\* that order.
C2_ExactPages ==
  \A t \in Tokens :
    ( /\ Completed(t)
      /\ sp_stable[t]
      /\ start_used[t] % OneDay = 0
      /\ start_used[t] < sp_first[t] )
    => pages[t] = [i \in 1 .. (strftime(sp_first[t]) - strftime(start_used[t]))
                     |-> strftime(start_used[t]) + i]

C2_Witness ==
  \E t \in Tokens :
    /\ Completed(t)
    /\ sp_stable[t]
    /\ start_used[t] % OneDay = 0
    /\ strftime(sp_first[t]) - strftime(start_used[t]) = 2
    /\ Len(pages[t]) = 2

\* C3: a partition whose resolved starting cursor is at or after the signpost
\* gets no request and no record, keeps its bookmark and progress marker, and
\* raises no error.
C3_EmptyWindow ==
  \A t \in Tokens :
    (start_used[t] # None /\ start_used[t] >= sp_first[t])
    => /\ pages[t] = << >>
       /\ \A r \in Range(records) \cup Range(out) : r.token # t
       /\ progress_marker[t] = None
       /\ bookmark[t] = run_start_bookmark[t]
       /\ ~ (phase = "failed" /\ current_token = t)

C3_Witness ==
  \E t \in Tokens :
    /\ Completed(t)
    /\ start_used[t] = sp_first[t]
    /\ phase = "done"

\* C4: a run that follows a run completed without error, under the same
\* signpost, issues no request and yields no record.
C4_IdempotentResume ==
  (run >= 2 /\ prev_ok /\ Cardinality(prev_sps \cup run_sps) <= 1)
  => /\ \A t \in Tokens : pages[t] = << >>
     /\ records = << >>
     /\ out = << >>

C4_Witness ==
  /\ run >= 2 /\ prev_ok /\ Cardinality(prev_sps \cup run_sps) = 1
  /\ phase = "done"
  /\ \E t \in Tokens : bookmark[t] # None

\* C5: no state update replaces a partition's bookmark by an earlier date: the
\* values written per partition are non-decreasing.
NonDecreasing(old, new) == (old # None /\ new # None) => new >= old

RequestFailure == RequestErrors \cup {"JSONDecodeError"}

C6_WriteAfterSuccess ==
  [][/\ \A t \in Tokens :
          (progress_marker'[t] # progress_marker[t] /\ progress_marker'[t] # None)
          => /\ phase = "running" /\ pc = "request" /\ t = current_token
             /\ last_error' = "none" /\ error' \notin RequestFailure
             /\ progress_marker'[t] = strftime(next_page_token)
             /\ \/ records' = Append(records, parse_response(next_page_token))
                \/ error' = "RuntimeError"
     /\ (phase = "running" /\ phase' = "failed" /\ error' \in RequestFailure)
          => (progress_marker' = progress_marker /\ bookmark' = bookmark)]_vars

C6_Witness ==
  /\ phase = "failed"
  /\ error \in RequestFailure
  /\ progress_marker[current_token] # None
  /\ Len(pages[current_token]) >= 2
  /\ progress_marker[current_token] = pages[current_token][Len(pages[current_token]) - 1]

\* C7: when a run has ended, the record of every page a partition's progress
\* marker has moved to or past has been delivered to the consumer of
\* request_records.
C7_NoGap ==
  phase \in {"failed", "finalize"} =>
    \A t \in Tokens :
      progress_marker[t] # None =>
        \A d \in Range(pages[t]) :
          d <= progress_marker[t] => [token |-> t, date |-> d] \in Range(out)

\* C8: a fatal error in the sync of one partition never ends the run while a
\* partition configured after it is still unsynced.
C8_PartitionIsolation ==
  ~ (phase = "failed" /\ \E t \in Tokens : t > current_token /\ start_used[t] = None)

\* C9: a page request is attempted at most max_tries times; another attempt
\* follows only a whitelisted error; an error outside the whitelist is raised
\* by the attempt that met it; a whitelisted error is raised only by attempt
\* number max_tries.
C9_RetryPolicy ==
  /\ pc = "request" =>
       /\ tries < max_tries
       /\ tries > 0 => last_error \in Whitelist
       /\ tries = 0 => last_error = "none"
  /\ (phase = "failed" /\ error \in RequestErrors) =>
       /\ last_error = error
       /\ last_tries >= 1 /\ last_tries <= max_tries
       /\ error \in Whitelist => last_tries = max_tries

C9_Witness ==
  /\ phase = "failed"
  /\ error \in Whitelist
  /\ last_tries = max_tries

\* C10: a page request that succeeds, after however many retried attempts,
\* has one outcome: the page's record is collected once, the progress marker
\* becomes the page's date, and the page loop goes on with the next token (or
\* ends the partition when there is none).
C10_RetryThenSuccess ==
  [][(/\ phase = "running" /\ pc = "request" /\ phase' = "running"
      /\ today' = today /\ last_error' = "none" /\ last_tries' = tries + 1)
     => LET date == strftime(next_page_token)
            signpost == get_replication_key_signpost
        IN  /\ records' = Append(records, [token |-> current_token, date |-> date])
            /\ progress_marker' = [progress_marker EXCEPT ![current_token] = date]
            /\ next_page_token' = IF next_page_token < signpost
                                  THEN next_page_token + OneDay ELSE None
            /\ pc' = IF next_page_token < signpost THEN "request" ELSE "yield"
            /\ tries' = 0
            /\ UNCHANGED << bookmark, out, current_token >>]_vars

C10_Witness ==
  /\ phase = "running"
  /\ last_tries = 4
  /\ last_error = "none"
  /\ pc = "request"
  /\ Len(records) = 1
  /\ progress_marker[current_token] = records[1].date
  /\ next_page_token = parse(records[1].date) + OneDay

\* C11: a page request that fails with a connection failure is treated as
\* transient: it is retried under the attempt cap and never propagated before
\* max_tries attempts were made.
C11_ConnectionRetried ==
  (phase = "failed" /\ error = "ConnectionError") => last_tries >= max_tries

\* C14: the signpost is resolved once per partition sync: every page-token
\* computation of one partition compares against the same signpost value, also
\* when the wall clock advances between pages.
C14_SignpostOnce == \A t \in Tokens : sp_stable[t]

\* the records that the requests made so far for token t produce when they succeed
RecordsOf(t) == [i \in 1 .. Len(pages[t]) |-> [token |-> t, date |-> pages[t][i]]]

\* the number of records of token t in the output
Emitted(t) == Cardinality({i \in 1 .. Len(out) : out[i].token = t})

\* C16: request_records processes the configured tokens one after another in
\* configuration order, whatever context it is called with: a token after the
\* current one has no request, no state write and no record; every request and
\* record of a token before the current one is complete and in the output; the
\* output is grouped by token in configuration order; a run that ends complete
\* has processed every token.
C16_Sequential ==
  phase \in {"running", "finalize", "done", "failed"} =>
    /\ \A t \in Tokens : t > current_token =>
          /\ pages[t] = << >>
          /\ start_used[t] = None
          /\ progress_marker[t] = None
          /\ Emitted(t) = 0
    /\ \A t \in Tokens : t < current_token =>
          /\ start_used[t] # None
          /\ Emitted(t) = Len(pages[t])
    /\ \A i, j \in 1 .. Len(out) : i < j => out[i].token <= out[j].token
    /\ phase \in {"finalize", "done"} => \A t \in Tokens : start_used[t] # None

C16_Witness ==
  /\ phase = "running"
  /\ current_token = NumTokens
  /\ pc = "request"
  /\ Len(pages[NumTokens]) = 1
  /\ \A t \in Tokens : t < NumTokens => Emitted(t) >= 2

\* C17: every record of the daily stream carries the token of the partition
\* whose request produced it and the date of that request's page token: the
\* k-th collected record of the current partition is tagged with the partition
\* and the k-th requested date, and the output holds, partition by partition,
\* exactly the records of the partition's requests.
C17_RecordTags ==
  /\ \A k \in 1 .. Len(records) :
        records[k] = [token |-> current_token, date |-> pages[current_token][k]]
  /\ \A i \in 1 .. Len(out) :
        LET k == i - Cardinality({j \in 1 .. Len(out) : out[j].token < out[i].token})
        IN  /\ k \in 1 .. Len(pages[out[i].token])
            /\ out[i] = RecordsOf(out[i].token)[k]

C17_Witness ==
  /\ Len(out) >= 2
  /\ out[1].date # out[2].date
  /\ Len(records) = 1
  /\ records[1].token # out[1].token
  /\ pc = "request"

\* C19: the daily sync is lazy page by page: when the request for page k+1 of
\* a partition is issued, the record of page k is already in the output.
C19_LazyPages ==
  (phase = "running" /\ pc = "request") =>
    \A k \in 1 .. Len(pages[current_token]) - 1 :
      RecordsOf(current_token)[k] \in Range(out)

\* C20: on a first run (no bookmark for the token), the first date requested
\* for each token is the configured start_date itself.
C20_FirstDateIsStart ==
  \A t \in Tokens :
    (run_start_bookmark[t] = None /\ pages[t] # << >>) =>
      pages[t][1] = strftime(start_date)

StrictlyIncreasing(s) == \A i, j \in 1 .. Len(s) : i < j => s[i] < s[j]

\* C13: for every partition of the daily and of the hourly stream, the page
\* tokens requested during one sync are strictly increasing.
C13_StrictlyIncreasing == \A t \in Tokens : StrictlyIncreasing(pages[t])

C13_Witness ==
  /\ stream = "daily"
  /\ phase = "done"
  /\ \A t \in Tokens : Len(pages[t]) >= 2

\* C15: with the free-tier URL exactly one pause of wait_time_between_requests
\* lies between two consecutive page requests of a partition, and none before
\* the partition's first request; with the premium-tier URL the page loops
\* never pause.
C15_RateLimit ==
  /\ api_url = PRO => (sleeps = << >> /\ sleep_total = 0)
  /\ (api_url = FREE /\ phase = "running" /\ pc = "request") =>
       sleeps = IF Len(pages[current_token]) >= 2
                THEN << "wait_time_between_requests" >> ELSE << >>

C15_Witness ==
  /\ api_url = FREE
  /\ phase = "running" /\ pc = "request"
  /\ Len(pages[current_token]) >= 2
  /\ sleeps = << "wait_time_between_requests" >>
  /\ sleep_total >= 2

\* C18: a sync of the daily stream is finite: provided each request attempt
\* eventually returns or fails, a run that has started eventually ends, either
\* complete or with an error.
C18_Terminates == (phase = "running") ~> (phase \in {"done", "failed"})

C18_Witness ==
  /\ phase = "done"
  /\ run = MaxRuns
  /\ \A t \in Tokens : Len(pages[t]) >= 2

\* the tokens whose loop body has ended
Processed(t) ==
  /\ t \in 1 .. token_count
  /\ \/ phase \in {"finalize", "done"}
     \/ phase \in {"running", "failed"} /\ t < current_token

\* C21: hourly stream, empty window: when the resolved starting cursor of a
\* token is at or after the signpost, the sync of that token issues no request.
C21_HourlyEmptyWindow ==
  \A t \in Tokens :
    ( /\ stream = "hourly"
      /\ start_used[t] # None
      /\ datetime_to_ms(start_used[t]) >= hourly_get_replication_key_signpost )
    => pages[t] = << >>

\* C22: with an api_url that is neither tier URL a configuration error is
\* raised at stream construction: a constructed stream with such a URL exists
\* only as one that failed with that error.
C22_InvalidUrlRejected ==
  (api_url \notin {PRO, FREE} /\ phase # "new") =>
    (phase = "failed" /\ error = "ValueError")

\* C23: the asset-profile stream captures once per day per token: in a run
\* that is not ended by an error a token whose bookmark is at or after today's
\* date gets no request and no record and every other token exactly one
\* request; a token synced successfully has its bookmark at today's date once
\* the run is complete, so a second run on the same day yields no record.
C23_OncePerDay ==
  stream = "asset_profile" =>
    /\ \A t \in Tokens : Processed(t) =>
          IF run_start_bookmark[t] # None /\ run_start_bookmark[t] >= today_str
          THEN pages[t] = << >> /\ Emitted(t) = 0
          ELSE Len(pages[t]) = 1 /\ Emitted(t) <= 1
    /\ \A t \in Tokens : (phase = "done" /\ token_result[t] = "ok") =>
          (bookmark[t] # None /\ bookmark[t] >= today_str)
    /\ ( /\ phase \in {"running", "finalize", "done"}
         /\ \A t \in 1 .. token_count :
              run_start_bookmark[t] # None /\ run_start_bookmark[t] >= today_str )
       => out = << >>

C23_Witness ==
  /\ stream = "asset_profile"
  /\ phase = "done"
  /\ run = MaxRuns
  /\ token_count = NumTokens
  /\ \A t \in Tokens : token_result[t] = "skipped" /\ run_start_bookmark[t] = today
  /\ out = << >>

\* C24: in the asset-profile stream an HTTP 404 error for a token is a soft
\* skip: the token yields no record, the error does not leave request_records,
\* and the tokens configured after it are still processed.
C24_SoftSkip404 ==
  \A t \in Tokens :
    (stream = "asset_profile" /\ token_result[t] = "HTTPError404") =>
      /\ Emitted(t) = 0
      /\ Processed(t)
      /\ phase = "failed" => current_token > t
      /\ phase \in {"finalize", "done"} =>
           \A u \in 1 .. token_count : token_result[u] # "none"

C24_Witness ==
  /\ stream = "asset_profile"
  /\ phase = "done"
  /\ token_result[1] = "HTTPError404"
  /\ token_result[NumTokens] = "ok"
  /\ Len(out) = NumTokens - 1

\* C25: in the asset-profile stream a non-404 HTTP error for a token aborts
\* only that token: request_records proceeds to the next token and the run
\* does not end with the error.
C25_HttpErrorSkipsToken ==
  \A t \in Tokens :
    (stream = "asset_profile" /\ token_result[t] = "HTTPError") =>
      (phase # "failed" /\ Processed(t))

\* C26: categories request_records: an error of any kind while requesting or
\* parsing a token makes the token yield no record and never leaves
\* request_records; the tokens configured after it are still processed.
C26_ErrorsSkipToken ==
  stream = "categories" =>
    /\ phase # "failed"
    /\ error = "none"
    /\ \A t \in Tokens : token_result[t] \notin {"none", "ok"} => Emitted(t) = 0
    /\ \A t \in Tokens : Processed(t) => token_result[t] # "none"
    /\ phase \in {"finalize", "done"} =>
         \A t \in 1 .. token_count : token_result[t] # "none"

C26_Witness ==
  /\ stream = "categories"
  /\ phase = "done"
  /\ token_count = NumTokens
  /\ token_result[1] = "ReadTimeout"
  /\ token_result[NumTokens] = "ok"
  /\ Len(out) = NumTokens - 1

\* C27: categories request_records: a request that fails with a whitelisted
\* transient error is retried by the stream's retry policy, up to 8 attempts,
\* before the token is skipped.
C27_CategoriesRetries ==
  ( /\ stream = "categories"
    /\ phase = "running" /\ pc = "rate_limit"
    /\ last_error \in WhitelistConn )
  => (categories_giveup(last_error, last_tries) /\ last_tries = categories_max_tries)

\* C28: categories parse_response, for every body: a JSON object yields one
\* record whose coin_id is the body's id, or the current token when id is
\* missing or empty, whose categories is the body's list, or the empty list
\* when the key is absent, and whose name and symbol are null when missing; a
\* body that is not JSON raises FatalAPIError and yields no record.
C28_ParseResponse ==
  last_call.op = "parse_response" =>
    LET body == last_call.body
        result == last_call.result
    IN  IF ~ body.json
        THEN result.raised = "FatalAPIError" /\ result.records = << >>
        ELSE /\ result.raised = "none"
             /\ Len(result.records) = 1
             /\ result.records[1].coin_id =
                  IF body.id \in Tokens THEN body.id ELSE last_call.token
             /\ result.records[1].categories =
                  IF body.categories.has THEN body.categories.list ELSE << >>
             /\ result.records[1].name =
                  IF body.name = Absent THEN None ELSE body.name
             /\ result.records[1].symbol =
                  IF body.symbol = Absent THEN None ELSE body.symbol

C28_Witness ==
  /\ last_call.op = "parse_response"
  /\ last_call.body.json
  /\ last_call.body.id = EmptyStr
  /\ ~ last_call.body.categories.has
  /\ last_call.result.records[1].coin_id = last_call.token

\* C29: categories request_records processes every configured token exactly
\* once, in configuration order, and yields the concatenation of the per-token
\* records; with an empty token list it issues no request and yields no record.
C29_EveryTokenOnce ==
  stream = "categories" =>
    /\ \A t \in Tokens : Len(pages[t]) <= 1
    /\ \A t \in Tokens : Processed(t) =>
          /\ token_result[t] # "none"
          /\ url_base # "ValueError" => Len(pages[t]) = 1
          /\ Emitted(t) = IF token_result[t] = "ok" THEN 1 ELSE 0
    /\ \A t \in Tokens :
          (t > token_count \/ (phase \in {"running", "failed"} /\ t > current_token)) =>
            (pages[t] = << >> /\ token_result[t] = "none" /\ Emitted(t) = 0)
    /\ \A i, j \in 1 .. Len(out) : i < j => out[i].token < out[j].token
    /\ phase \in {"finalize", "done"} => \A t \in 1 .. token_count : Processed(t)
    /\ token_count = 0 => (out = << >> /\ phase # "running")

C29_Witness ==
  /\ stream = "categories"
  /\ phase = "done"
  /\ token_count = NumTokens
  /\ Len(out) = NumTokens
  /\ \A t \in Tokens : Len(pages[t]) = 1

\* the number of tokens whose rate-limiting step has been performed
RateLimited ==
  IF phase \in {"finalize", "done"} THEN token_count
  ELSE IF phase = "running" THEN current_token - 1
  ELSE 0

\* C30: categories rate limiting: with the free-tier URL and a wait time w > 0
\* the rate-limiting step of each processed token sleeps exactly once, for w
\* seconds; with the premium-tier URL the stream never sleeps.
C30_CategoriesRateLimit ==
  stream = "categories" =>
    /\ api_url = PRO => (sleeps = << >> /\ sleep_total = 0)
    /\ (api_url = FREE /\ wait_time > 0) =>
         /\ sleep_total = RateLimited
         /\ sleeps \in {<< >>, << wait_time >>}
         /\ (phase = "running" /\ pc = "begin" /\ current_token > 1) =>
              sleeps = << wait_time >>

C30_Witness ==
  /\ stream = "categories"
  /\ api_url = FREE
  /\ wait_time = MaxWait
  /\ phase = "running" /\ pc = "begin" /\ current_token = NumTokens
  /\ sleeps = << wait_time >>
  /\ sleep_total = NumTokens - 1

\* C34: cursor resolution in the daily stream: the starting cursor of a
\* partition is the partition's bookmark value, parsed, when there is one, and
\* the configured start_date otherwise; resolving it changes neither the state
\* store nor the configuration.
C34_CursorResolution ==
  [][ \A t \in Tokens :
        (stream = "daily" /\ start_used[t] = None /\ start_used'[t] # None) =>
          /\ start_used'[t] = IF bookmark[t] # None THEN parse(bookmark[t])
                              ELSE start_date
          /\ UNCHANGED << bookmark, progress_marker, stream_state, start_date >> ]_vars

C34_Witness ==
  /\ stream = "daily"
  /\ phase = "running"
  /\ \E t \in Tokens :
       /\ bookmark[t] # None
       /\ start_used[t] = parse(bookmark[t])
       /\ start_used[t] # start_date

\* C37: hourly stream outside backfill mode: the sync of a token issues exactly
\* one request, whose token is the resolved starting cursor, and the sequencer
\* then returns no token, whatever the start and the signpost are.
C37_SinglePage ==
  \A t \in Tokens :
    (stream = "hourly" /\ isdigit(days) /\ int_of(days) <= 30) =>
      /\ Len(pages[t]) <= 1
      /\ pages[t] # << >> => pages[t] = << start_used[t] >>
      /\ Completed(t) => (Len(pages[t]) = 1 /\ (t = current_token /\ pc = "yield"
                                                 => next_page_token = None))

C37_Witness ==
  /\ stream = "hourly"
  /\ days = "30"
  /\ phase = "done"
  /\ start_date < now
  /\ \A t \in Tokens : pages[t] = << start_used[t] >>

\* C38: in the daily stream the loop-guard error is unreachable: the sequencer
\* returns the previous token plus one day or no token, so the page loop never
\* finds the next token equal to the previous one and RuntimeError is never
\* raised.
C38_GuardUnreachable ==
  stream = "daily" =>
    /\ error # "RuntimeError"
    /\ (phase = "running" /\ pc = "request") =>
         page_loop_guard(get_next_page_token(next_page_token, current_token),
                         next_page_token) # "raise"

C38_Witness ==
  /\ stream = "daily"
  /\ phase = "running" /\ pc = "request"
  /\ Len(pages[current_token]) = 2
  /\ error = "none"

\* the number of 30-day chunks the window from start_ms to signpost spans
Chunks(start_ms, signpost) ==
  IF signpost <= start_ms THEN 0
  ELSE (signpost - start_ms + chunk_size_ms - 1) \div chunk_size_ms

\* C35: an hourly backfill whose window from start to signpost spans n chunks
\* of 30 days ends after at most n + 1 requests for the token, also when the
\* wall clock advances between pages.  The signpost of the first page is at
\* most the present signpost, so n is at most the number of chunks up to the
\* present signpost.
C35_BackfillEnds ==
  \A t \in Tokens :
    (stream = "hourly" /\ is_backfill(days) /\ start_used[t] # None) =>
      Len(pages[t]) <= Chunks(datetime_to_ms(start_used[t]),
                             hourly_get_replication_key_signpost) + 1

\* C36: the hourly page loop issues at most 100 requests per token in one
\* sync, and when the limit stops it the sync of the token ends without an
\* error being raised.
C36_IterationCap ==
  stream = "hourly" =>
    /\ iteration_count <= max_iterations
    /\ \A t \in Tokens : Len(pages[t]) <= max_iterations
    /\ (phase = "running" /\ pc = "yield" /\ next_page_token # None) =>
         (iteration_count = max_iterations /\ error = "none")

C36_Witness ==
  /\ stream = "hourly"
  /\ phase = "running" /\ pc = "yield"
  /\ next_page_token # None
  /\ iteration_count = max_iterations
  /\ Len(pages[current_token]) = max_iterations
  /\ error = "none"

\* C33: hourly sequencer after a response in backfill mode: the next token is
\* min(current + 30 days, signpost) in milliseconds, so it never exceeds the
\* signpost; when that value equals the current token, or when the current
\* token is at or after the signpost, no token is returned.
C33_ChunkedNextToken ==
  ( /\ last_call.op = "hourly_get_next_page_token"
    /\ last_call.has_response
    /\ days \in {"31", "max"} )
  => LET current == datetime_to_ms(IF last_call.previous_token # None
                                   THEN last_call.previous_token ELSE last_call.start)
         signpost == last_call.signpost
         stepped == IF current + chunk_size_ms < signpost
                    THEN current + chunk_size_ms ELSE signpost
     IN  IF current >= signpost \/ stepped = current
         THEN last_call.result.tok = None
         ELSE /\ last_call.result.tok # None
              /\ datetime_to_ms(last_call.result.tok) = stepped
              /\ datetime_to_ms(last_call.result.tok) <= signpost

C33_Witness ==
  /\ last_call.op = "hourly_get_next_page_token"
  /\ last_call.has_response
  /\ days = "max"
  /\ last_call.previous_token # None
  /\ datetime_to_ms(last_call.previous_token) < last_call.signpost
  /\ datetime_to_ms(last_call.previous_token) + chunk_size_ms > last_call.signpost
  /\ datetime_to_ms(last_call.result.tok) = last_call.signpost

\* the step of a full chunk also occurs
FullChunkStepReached ==
  /\ last_call.op = "hourly_get_next_page_token"
  /\ last_call.has_response
  /\ last_call.result.tok # None
  /\ datetime_to_ms(last_call.result.tok) < last_call.signpost

\* the dates of the records of token t among the first n records passed
DatesOf(t, n) == {records[i].date : i \in {j \in 1 .. n : records[j].token = t}}

Greatest(S) == CHOOSE x \in S : \A y \in S : y <= x

C32_CoinListSleep ==
  (stream = "coin_list" /\ api_url = PRO) => (sleeps = << >> /\ sleep_total = 0)

\* C39: asset-market-quality pagination: the page tokens produced for a token
\* are 2, 3, 4, ...; a next token is produced exactly when the response holds
\* exactly 100 tickers, its value being the previous token, or 1 when there is
\* none, plus 1; pagination of the token ends at the first response with any
\* other number of tickers.
C39_TickerPages ==
  stream = "asset_market_quality" =>
    /\ \A t \in Tokens : pages[t] = [i \in 1 .. Len(pages[t]) |-> i + 1]
    /\ last_call.op = "mq_get_next_page_token" =>
         /\ (last_call.result # None) <=> (last_call.tickers = tickers_per_page)
         /\ last_call.result # None =>
              last_call.result = (IF last_call.previous_token = None THEN 1
                                  ELSE last_call.previous_token) + 1
    /\ \A t \in Tokens :
         LET n == Emitted(t)
             ended == t < current_token \/ phase = "done"
         IN  /\ n = IF ended THEN Len(pages[t]) + 1 ELSE Len(pages[t])
             /\ \A i \in 1 .. Len(out) :
                  (out[i].token = t /\ out[i].tickers # tickers_per_page) =>
                    (ended /\ \A j \in i + 1 .. Len(out) : out[j].token # t)

C39_Witness ==
  /\ stream = "asset_market_quality"
  /\ phase = "done"
  /\ pages[1] = << 2, 3, 4 >>
  /\ last_call.tickers = tickers_per_page + 1
  /\ last_call.result = None

====
